---- MODULE Spec2Model ----
(***************************************************************************)
(* The orchestration core of rjvm: vm/src/vm.rs (class resolution and      *)
(* initialization, method dispatch), vm/src/value.rs (values and objects)  *)
(* and vm/src/exceptions.rs.  The class manager, the call stack, the       *)
(* native registry and the frame interpreter are collaborators whose code  *)
(* is not part of these files; they are modelled from their contracts.     *)
(***************************************************************************)
EXTENDS Integers, Sequences, FiniteSets, TLC

(***************************************************************************)
(* Bounds of the model.                                                    *)
(***************************************************************************)
\* deepest call stack a frame may still start a nested Vm call from
MaxFrames == 2
\* objects the embedder or a frame may allocate with new_object
MaxObjects == 1
\* values the temporary print hook may collect
MaxPrinted == 2
\* values a program of the value layer may hold at once
MaxHeld == 2
\* longest array created
MaxArrayLen == 2
\* last field or array position written (positions count from 1)
MaxIndex == 2

(***************************************************************************)
(* Values (value.rs, enum Value).                                          *)
(***************************************************************************)
Uninitialized == [tag |-> "Uninitialized", v |-> 0]
IntV(n) == [tag |-> "Int", v |-> n]
LongV(n) == [tag |-> "Long", v |-> n]
FloatV(n) == [tag |-> "Float", v |-> n]
DoubleV(n) == [tag |-> "Double", v |-> n]
Null == [tag |-> "Null", v |-> 0]
\* Value::Object(object_ref)
ObjectV(ref) == [tag |-> "Object", v |-> ref]
\* Value::Array(element type, array_ref): array_ref names the shared storage
ArrayV(elem, aref) == [tag |-> "Array", v |-> [elem |-> elem, ref |-> aref]]

\* field types of rjvm_reader: Base(base type), Object(class name), Array(element)
BaseField(b) == [k |-> "Base", t |-> b]
ObjectField(c) == [k |-> "Object", t |-> c]
ArrayField(e) == [k |-> "Array", t |-> e]

\* the zero value ObjectValue::new stores for a field of the given type
ZeroValueAllInt(ft) == IntV(0)

ZeroValue(ft) ==
  IF ft.k = "Base"
  THEN CASE ft.t = "Byte" -> IntV(0)
         [] ft.t = "Char" -> IntV(0)
         [] ft.t = "Double" -> DoubleV(0)
         [] ft.t = "Float" -> FloatV(0)
         [] ft.t = "Int" -> IntV(0)
         [] ft.t = "Long" -> LongV(0)
         [] ft.t = "Short" -> IntV(0)
         [] ft.t = "Boolean" -> IntV(0)
  ELSE Null

(***************************************************************************)
(* The class path: the classes the class manager can load.                 *)
(***************************************************************************)
NoSuper == ""
Method(n, d, native, np) == [name |-> n, desc |-> d, native |-> native, nparams |-> np]
NoMethod == Method("", "", FALSE, 0)
Clinit == Method("<clinit>", "()V", FALSE, 0)

ClassNames ==
  {"Base", "Mid", "Leaf", "Foo", "java/lang/Object", "java/lang/System",
   "Prims", "Rec", "Quad"}
\* names a program may ask for; "Missing" is not on the class path
RequestNames == {"Base", "Mid", "Leaf", "Foo", "Missing"}
\* names a program asks for that only uses the classes with built-in natives
BootNames == {"java/lang/Object", "java/lang/System", "Foo", "Missing"}

ClassFile(name) ==
  CASE name = "Base" ->
         [super |-> NoSuper,
          fields |-> <<BaseField("Int")>>,
          methods |-> <<Clinit>>]
    [] name = "Mid" ->
         [super |-> "Base",
          fields |-> <<>>,
          methods |-> <<>>]
    [] name = "Leaf" ->
         [super |-> "Mid",
          fields |-> <<ObjectField("Foo")>>,
          methods |-> <<Clinit, Method("run", "(I)V", FALSE, 1)>>]
    [] name = "Foo" ->
         [super |-> NoSuper,
          fields |-> <<>>,
          methods |-> <<Method("bar", "()I", TRUE, 0),
                        Method("baz", "()V", TRUE, 0),
                        Method("tempPrint", "(I)V", TRUE, 1)>>]
    [] name = "Prims" ->
         [super |-> NoSuper,
          fields |-> <<BaseField("Byte"), BaseField("Char"), BaseField("Short"),
                       BaseField("Boolean"), BaseField("Int"), BaseField("Long"),
                       BaseField("Float"), BaseField("Double")>>,
          methods |-> <<>>]
    [] name = "Rec" ->
         [super |-> "Prims",
          fields |-> <<ObjectField("Foo"), ArrayField(BaseField("Int"))>>,
          methods |-> <<>>]
    [] name = "Quad" ->
         [super |-> NoSuper,
          fields |-> <<BaseField("Int"), BaseField("Double"), ObjectField("Foo"),
                       ArrayField(BaseField("Int"))>>,
          methods |-> <<>>]
    [] name = "java/lang/Object" ->
         [super |-> NoSuper,
          fields |-> <<>>,
          methods |-> <<Method("registerNatives", "()V", TRUE, 0)>>]
    [] name = "java/lang/System" ->
         [super |-> NoSuper,
          fields |-> <<>>,
          methods |-> <<Method("registerNatives", "()V", TRUE, 0),
                        Method("nanoTime", "()J", TRUE, 0),
                        Method("currentTimeMillis", "()J", TRUE, 0)>>]

RECURSIVE Ancestors(_)
\* the proper ancestors of a class
Ancestors(name) ==
  IF ClassFile(name).super = NoSuper THEN {}
  ELSE {ClassFile(name).super} \cup Ancestors(ClassFile(name).super)

RECURSIVE AllFields(_)
\* the flattened field layout: inherited fields first, then the class's own
AllFields(name) ==
  IF ClassFile(name).super = NoSuper THEN ClassFile(name).fields
  ELSE AllFields(ClassFile(name).super) \o ClassFile(name).fields

\* Class::find_method: the class's own method with that name and descriptor
FindMethod(name, mname, desc) ==
  LET ms == ClassFile(name).methods
      hits == {i \in DOMAIN ms : ms[i].name = mname /\ ms[i].desc = desc}
  IN IF hits = {} THEN NoMethod ELSE ms[CHOOSE i \in hits : TRUE]

HasClinit(name) == FindMethod(name, "<clinit>", "()V") # NoMethod

(***************************************************************************)
(* Failures (VmError) and the results the Vm's operations return.          *)
(***************************************************************************)
VmError(tag, name) == [tag |-> tag, name |-> name]
NoError == VmError("", "")
ClassNotFoundException(name) == VmError("ClassNotFoundException", name)
NotImplemented == VmError("NotImplemented", "")
ValidationException == VmError("ValidationException", "")

\* one shape for every Result<_, VmError> of vm.rs; k = "None": nothing returned yet
Result(k, class, method, obj, some, val, err) ==
  [k |-> k, class |-> class, method |-> method, obj |-> obj,
   some |-> some, val |-> val, err |-> err]
\* an object reference: the object's class id and its number among the objects
\* of that class; NoObject stands for the absent reference (None)
ObjectRef(id, n) == [c |-> id, n |-> n]
NoObject == ObjectRef(0, 0)

NoRet == Result("None", "", NoMethod, NoObject, FALSE, Null, NoError)
OkClass(c) == Result("Ok", c, NoMethod, NoObject, FALSE, Null, NoError)
OkClassAndMethod(c, m) == Result("Ok", c, m, NoObject, FALSE, Null, NoError)
OkObject(ref) == Result("Ok", "", NoMethod, ref, FALSE, Null, NoError)
OkNone == Result("Ok", "", NoMethod, NoObject, FALSE, Null, NoError)
OkSome(v) == Result("Ok", "", NoMethod, NoObject, TRUE, v, NoError)
Err(e) == Result("Err", "", NoMethod, NoObject, FALSE, Null, e)

(***************************************************************************)
(* exceptions.rs: MethodCallFailed, the failure of a method call in its    *)
(* two channels, and the conversions into it.                              *)
(***************************************************************************)
InternalError(e) == [channel |-> "InternalError", error |-> e]
ExceptionThrown(x) == [channel |-> "ExceptionThrown", error |-> x]

\* JavaException { java_exception_object }
JavaException(ref) == [java_exception_object |-> ref]

\* the failures of the value stack (underflow, type mismatch)
ValueStackErrors == {"MaximumCapacityReached", "CannotPopFromEmptyStack"}

\* the failures of the Vm
VmErrors ==
  {NotImplemented, ValidationException} \cup
  {ClassNotFoundException(n) : n \in {"Base", "Mid", "Leaf", "Foo", "Missing"}}

\* impl From<VmError> for MethodCallFailed
FromVmError(e) == InternalError(e)

\* impl From<ValueStackError> for MethodCallFailed
FromValueStackError(x) == InternalError(ValidationException)

\* whether a failure is a MethodCallFailed
IsMethodCallFailed(f) == "channel" \in DOMAIN f

(***************************************************************************)
(* Class manager: the set of loaded classes.  A request for a class not    *)
(* yet loaded loads it and its not-yet-loaded ancestors and reports them,  *)
(* superclass first.  Every class has its own id.                          *)
(***************************************************************************)
CmLoaded(cm) == cm

ClassId(name) ==
  CASE name = "Base" -> 1 [] name = "Mid" -> 2 [] name = "Leaf" -> 3 [] name = "Foo" -> 4
    [] name = "java/lang/Object" -> 5 [] name = "java/lang/System" -> 6
    [] name = "Prims" -> 7 [] name = "Rec" -> 8 [] name = "Quad" -> 9

ClassOfId(id) == CHOOSE name \in ClassNames : ClassId(name) = id

\* the elements of a sequence
Range(q) == {q[i] : i \in DOMAIN q}

RECURSIVE ToInitialize(_, _)
ToInitialize(cm, name) ==
  IF name = NoSuper \/ name \in CmLoaded(cm) THEN <<>>
  ELSE ToInitialize(cm, ClassFile(name).super) \o <<name>>

\* ClassManager::get_or_resolve_class
ClassManagerResolve(cm, name) ==
  IF name \notin ClassNames
  THEN [k |-> "Err", cm |-> cm, batch |-> <<>>]
  ELSE IF name \in CmLoaded(cm)
  THEN [k |-> "AlreadyLoaded", cm |-> cm, batch |-> <<>>]
  ELSE [k |-> "NewClass", cm |-> cm \cup Range(ToInitialize(cm, name)),
        batch |-> ToInitialize(cm, name)]

(***************************************************************************)
(* Objects (value.rs) and the allocator.                                   *)
(***************************************************************************)
\* ObjectValue::new
ObjectValueNewUninitialized(id, name) ==
  [class_id |-> id,
   fields |-> [i \in 1..Len(AllFields(name)) |-> Uninitialized]]

ObjectValueNew(id, name) ==
  [class_id |-> id,
   fields |-> [i \in 1..Len(AllFields(name)) |-> ZeroValue(AllFields(name)[i])]]

\* ObjectValue::set_field
SetFieldChecked(obj, index, value) ==
  IF value.tag = obj.fields[index].tag
  THEN [obj EXCEPT !.fields = [obj.fields EXCEPT ![index] = value]]
  ELSE obj

SetField(obj, index, value) ==
  [obj EXCEPT !.fields = [obj.fields EXCEPT ![index] = value]]

\* ObjectValue::get_field
GetField(obj, index) == obj.fields[index]

\* the allocator's storage: for each class id, the objects of that class in
\* allocation order
ClassIds == {ClassId(name) : name \in ClassNames}
EmptyHeap == [id \in ClassIds |-> <<>>]

\* the object behind a reference
Deref(h, ref) == h[ref.c][ref.n]

\* the number of objects allocated
HeapSize(h) ==
  Len(h[1]) + Len(h[2]) + Len(h[3]) + Len(h[4]) + Len(h[5]) + Len(h[6])
  + Len(h[7]) + Len(h[8]) + Len(h[9])

\* ObjectAllocator::allocate: a new zero-initialized object and a reference to it
Allocate(h, id, name) ==
  [heap |-> [h EXCEPT ![id] = Append(@, ObjectValueNew(id, name))],
   ref |-> ObjectRef(id, Len(h[id]) + 1)]

(***************************************************************************)
(* Static table (Vm::statics).                                             *)
(***************************************************************************)
NoStatics == [i \in {} |-> NoObject]

\* self.statics.insert(class_to_init.id, static_instance)
StaticsInsertReplacesTable(st, id, ref) == [i \in {id} |-> ref]

StaticsInsertSkipped(st, id, ref) == st

StaticsInsert(st, id, ref) ==
  [i \in DOMAIN st \cup {id} |-> IF i = id THEN ref ELSE st[i]]

\* Vm::get_static_instance
GetStaticInstance(st, id) == IF id \in DOMAIN st THEN st[id] ELSE NoObject

(***************************************************************************)
(* Native registry: entries keyed by (class name, method name, descriptor).*)
(***************************************************************************)
Native(cls, name, desc, cb) == [cls |-> cls, name |-> name, desc |-> desc, cb |-> cb]

\* Vm::register_natives: the registry after Vm::new
RegisterNatives ==
  { Native("Foo", "tempPrint", "(I)V", "temp_print"),
    Native("java/lang/Object", "registerNatives", "()V", "noop"),
    Native("java/lang/System", "registerNatives", "()V", "noop"),
    Native("java/lang/System", "nanoTime", "()J", "nano_time"),
    Native("java/lang/System", "currentTimeMillis", "()J", "current_time_millis") }

\* the native the embedder registers for (Foo, bar, ()I), returning Int(42)
FooBar == Native("Foo", "bar", "()I", "int_42")

\* NativeMethodsRegistry::get_method: exact match of the triple; "" stands for None
GetMethod(reg, cls, m) ==
  LET hits == {e \in reg : e.cls = cls /\ e.name = m.name /\ e.desc = m.desc}
  IN IF hits = {} THEN "" ELSE (CHOOSE e \in hits : TRUE).cb

\* readings of the host clocks
Clock == {7, 8}

\* the readings a callback may get: only the clock hooks read a clock
ClockFor(cb) ==
  IF cb \in {"nano_time", "current_time_millis"} THEN Clock ELSE {0}

\* the callbacks: what each returns and what it does to vm.printed
RunCallbackNoopPrints(cb, pr, object, args, t) ==
  CASE cb = "temp_print" ->
         IF Len(args) = 0
         THEN [res |-> Err(ValidationException), printed |-> pr]
         ELSE [res |-> OkNone, printed |-> Append(pr, args[1])]
    [] cb = "noop" -> [res |-> OkNone, printed |-> Append(pr, Null)]
    [] cb = "nano_time" -> [res |-> OkSome(LongV(t)), printed |-> pr]
    [] cb = "current_time_millis" -> [res |-> OkSome(LongV(t)), printed |-> pr]
    [] cb = "int_42" -> [res |-> OkSome(IntV(42)), printed |-> pr]

RunCallbackPrintsLast(cb, pr, object, args, t) ==
  CASE cb = "temp_print" ->
         IF Len(args) = 0
         THEN [res |-> Err(ValidationException), printed |-> pr]
         ELSE [res |-> OkNone, printed |-> Append(pr, args[Len(args)])]
    [] cb = "noop" -> [res |-> OkNone, printed |-> pr]
    [] cb = "nano_time" -> [res |-> OkSome(LongV(t)), printed |-> pr]
    [] cb = "current_time_millis" -> [res |-> OkSome(LongV(t)), printed |-> pr]
    [] cb = "int_42" -> [res |-> OkSome(IntV(42)), printed |-> pr]

RunCallback(cb, pr, object, args, t) ==
  CASE cb = "temp_print" ->
         IF Len(args) = 0
         THEN [res |-> Err(ValidationException), printed |-> pr]
         ELSE [res |-> OkNone, printed |-> Append(pr, args[1])]
    [] cb = "noop" -> [res |-> OkNone, printed |-> pr]
    [] cb = "nano_time" -> [res |-> OkSome(LongV(t)), printed |-> pr]
    [] cb = "current_time_millis" -> [res |-> OkSome(LongV(t)), printed |-> pr]
    [] cb = "int_42" -> [res |-> OkSome(IntV(42)), printed |-> pr]

(***************************************************************************)
(* Call stack: a sequence of frames, the last one on top.                  *)
(***************************************************************************)
Frame(cls, m, object, args) ==
  [class |-> cls, method |-> m, object |-> object, args |-> args]

\* CallStack::add_frame: builds and pushes the frame, or fails and pushes nothing
AddFrame(cs, cls, m, object, args, fails) ==
  IF fails
  THEN [k |-> "Err", cs |-> cs, err |-> ValidationException]
  ELSE [k |-> "Ok", cs |-> Append(cs, Frame(cls, m, object, args)), err |-> NoError]

\* CallStack::pop_frame: fails on an empty stack
PopFrame(cs) ==
  IF Len(cs) = 0
  THEN [k |-> "Err", cs |-> cs, err |-> ValidationException]
  ELSE [k |-> "Ok", cs |-> SubSeq(cs, 1, Len(cs) - 1), err |-> NoError]

(***************************************************************************)
(* Vm::invoke (vm.rs), in its three parts.                                 *)
(***************************************************************************)
\* the native branch: look the callback up and call it, or NotImplemented
InvokeNativeMissingIsNoop(reg, pr, cls, m, object, args, t) ==
  LET cb == GetMethod(reg, cls, m)
  IN IF cb # ""
     THEN LET r == RunCallback(cb, pr, object, args, t)
          IN [res |-> r.res, printed |-> r.printed,
              calls |-> <<[cb |-> cb, object |-> object, args |-> args]>>]
     ELSE [res |-> OkNone, printed |-> pr, calls |-> <<>>]

InvokeNativeDropsArgs(reg, pr, cls, m, object, args, t) ==
  LET cb == GetMethod(reg, cls, m)
  IN IF cb # ""
     THEN LET r == RunCallback(cb, pr, object, <<>>, t)
          IN [res |-> r.res, printed |-> r.printed,
              calls |-> <<[cb |-> cb, object |-> object, args |-> <<>>]>>]
     ELSE [res |-> Err(NotImplemented), printed |-> pr, calls |-> <<>>]

InvokeNative(reg, pr, cls, m, object, args, t) ==
  LET cb == GetMethod(reg, cls, m)
  IN IF cb # ""
     THEN LET r == RunCallback(cb, pr, object, args, t)
          IN [res |-> r.res, printed |-> r.printed,
              calls |-> <<[cb |-> cb, object |-> object, args |-> args]>>]
     ELSE [res |-> Err(NotImplemented), printed |-> pr, calls |-> <<>>]

\* the bytecode branch up to the frame's execute: add_frame(..)?
InvokeStartSwallowsFailure(cs, cls, m, object, args, fails) ==
  LET f == AddFrame(cs, cls, m, object, args, fails)
  IN IF f.k = "Err"
     THEN [started |-> FALSE, cs |-> f.cs, res |-> OkNone]
     ELSE [started |-> TRUE, cs |-> f.cs, res |-> NoRet]

InvokeStart(cs, cls, m, object, args, fails) ==
  LET f == AddFrame(cs, cls, m, object, args, fails)
  IN IF f.k = "Err"
     THEN [started |-> FALSE, cs |-> f.cs, res |-> Err(f.err)]
     ELSE [started |-> TRUE, cs |-> f.cs, res |-> NoRet]

\* the bytecode branch after execute returned result: pop_frame()?; result
InvokeFinishPopsOnSuccessOnly(cs, result) ==
  IF result.k = "Err"
  THEN [cs |-> cs, res |-> result]
  ELSE LET p == PopFrame(cs)
       IN IF p.k = "Err" THEN [cs |-> p.cs, res |-> Err(p.err)]
          ELSE [cs |-> p.cs, res |-> result]

InvokeFinish(cs, result) ==
  LET p == PopFrame(cs)
  IN IF p.k = "Err" THEN [cs |-> p.cs, res |-> Err(p.err)]
     ELSE [cs |-> p.cs, res |-> result]

\* invoke up to the point where it returns or the frame starts executing
InvokeDispatch(reg, pr, cs, cls, m, object, args, fails, t) ==
  IF m.native
  THEN LET n == InvokeNative(reg, pr, cls, m, object, args, t)
       IN [started |-> FALSE, cs |-> cs, printed |-> n.printed,
           res |-> n.res, calls |-> n.calls]
  ELSE LET b == InvokeStart(cs, cls, m, object, args, fails)
       IN [started |-> b.started, cs |-> b.cs, printed |-> pr,
           res |-> b.res, calls |-> <<>>]

(***************************************************************************)
(* Vm::get_or_resolve_class, resolve_class_method, new_object (vm.rs).     *)
(***************************************************************************)
\* if let ResolvedClass::NewClass(classes_to_init) = &class: the classes to loop over
InitBatchOnEveryResolution(r, name) ==
  IF r.k = "NewClass" THEN r.batch
  ELSE IF r.k = "AlreadyLoaded" THEN <<name>> ELSE <<>>

InitBatch(r, name) == IF r.k = "NewClass" THEN r.batch ELSE <<>>

\* self.invoke(..)? inside the loop: whether the loop is left with the failure
ClinitFailureIgnored(res) == FALSE

ClinitFailed(res) == res.k = "Err"

\* the and_then of resolve_class_method
AndThenFindMethod(r, class_name, mname, desc) ==
  IF r.k = "Err" THEN r
  ELSE LET m == FindMethod(r.class, mname, desc)
       IN IF m # NoMethod THEN OkClassAndMethod(r.class, m)
          ELSE Err(ClassNotFoundException(class_name))

(***************************************************************************)
(* State.                                                                  *)
(***************************************************************************)
VARIABLES
  class_manager,            \* Vm::class_manager: the loaded classes' names
  heap,                     \* Vm::object_allocator: the allocated objects
  statics,                  \* Vm::statics: class id -> reference of the static instance
  native_methods_registry,  \* Vm::native_methods_registry
  printed,                  \* Vm::printed
  call_stack,               \* the CallStack the embedder passes to every operation
  ctl,                      \* the Vm operations in progress, innermost last
  ret,                      \* the result just returned to the innermost caller, if any
  ev,                       \* what the last step did
  init_begun,               \* classes whose turn in an initialization loop has come
  clinit_log,               \* classes whose <clinit> the loop invoked, in order
  arrays,                   \* the storage behind the ArrayRefs, in creation order
  held                      \* the values a program of the value layer holds

vars == <<class_manager, heap, statics, native_methods_registry, printed,
          call_stack, ctl, ret, ev, init_begun, clinit_log, arrays, held>>

\* what the operations of the Vm leave alone
value_store == <<arrays, held>>

\* an operation in progress: a get_or_resolve_class inside its loop ("resolve"),
\* an invoke whose frame is executing ("invoke"), or a resolve_class_method or
\* new_object waiting for its get_or_resolve_class
Act(op, cls, batch, idx, mname, desc, depth0) ==
  [op |-> op, cls |-> cls, batch |-> batch, idx |-> idx,
   mname |-> mname, desc |-> desc, depth0 |-> depth0]

Top(s) == s[Len(s)]
Pop(s) == SubSeq(s, 1, Len(s) - 1)

\* what a step did: which operation (op) did what (kind) for which class and
\* method, with which receiver and arguments, at which call-stack depth, with
\* which result, calling which callbacks; init: as part of an initialization
\* loop; addfail: add_frame failed; executed: the frame's execute ran
Event(kind, op, init, cls, m, object, args, depth0, res, calls, addfail, executed) ==
  [kind |-> kind, op |-> op, init |-> init, cls |-> cls, method |-> m,
   object |-> object, args |-> args, depth0 |-> depth0, res |-> res,
   calls |-> calls, addfail |-> addfail, executed |-> executed]

\* a step that is no part of an invoke
Plain(kind, op, cls, res) ==
  Event(kind, op, FALSE, cls, NoMethod, NoObject, <<>>, 0, res, <<>>, FALSE, FALSE)

Init ==
  /\ class_manager = {}
  /\ heap = EmptyHeap
  /\ statics = NoStatics
  /\ native_methods_registry = RegisterNatives \cup {FooBar}
  /\ printed = <<>>
  /\ call_stack = <<>>
  /\ ctl = <<>>
  /\ ret = NoRet
  /\ ev = Plain("new", "", "", NoRet)
  /\ init_begun = {}
  /\ clinit_log = <<>>
  /\ arrays = <<>>
  /\ held = <<>>

\* no result is waiting to be taken
Ready == ret.k = "None"

\* the embedder is between two operations
Idle == ctl = <<>> /\ Ready

\* a frame's execute is running
Executing == ctl # <<>> /\ Top(ctl).op = "invoke" /\ Ready

\* who may invoke a method: the embedder or an executing frame
CanInvoke == Idle \/ Executing

\* who may start an operation that can push frames
CanCall == Idle \/ (Executing /\ Len(call_stack) < MaxFrames)

\* the argument lists a native method is invoked with: the right number of
\* arguments, or none at all
ArgChoices(m) == {<<>>} \cup (IF m.nparams = 1 THEN {<<IntV(1)>>} ELSE {})

\* the receivers a native method of class cls is invoked with: none, or the first
\* object of the class
Receivers(cls) ==
  {NoObject} \cup (IF heap[ClassId(cls)] # <<>> THEN {ObjectRef(ClassId(cls), 1)} ELSE {})

\* the argument list and receiver a bytecode method is invoked with
BytecodeArgs == <<IntV(1)>>

\* the methods other than <clinit>, which only initialization invokes
Invocable(cls) ==
  {ClassFile(cls).methods[i] : i \in DOMAIN ClassFile(cls).methods} \ {Clinit}

MethodRequests == {<<"bar", "()I">>}

\* the argument lists the print hook is called with by the boot program: none,
\* one argument, two arguments
BootArgChoices(m) ==
  IF m.nparams = 1 THEN {<<>>, <<IntV(1)>>, <<IntV(2), IntV(1)>>} ELSE {<<>>}

BootMethodRequests == {<<"nanoTime", "()J">>}

\* what a frame's execute may return
ExecResults == {OkNone, Err(ValidationException)}

(***************************************************************************)
(* The three operations that resolve a class.  resolve_class_method and    *)
(* new_object call get_or_resolve_class and finish once it has returned.   *)
(***************************************************************************)
\* Vm::new_object after get_or_resolve_class returned r: `?`, then allocate
NewObjectFinishIgnoresFailure(r, h) ==
  LET a == Allocate(h, ClassId(IF r.k = "Err" THEN "Foo" ELSE r.class),
                    IF r.k = "Err" THEN "Foo" ELSE r.class)
  IN [res |-> OkObject(a.ref), heap |-> a.heap]

NewObjectFinish(r, h) ==
  IF r.k = "Err" THEN [res |-> r, heap |-> h]
  ELSE LET a == Allocate(h, ClassId(r.class), r.class)
       IN [res |-> OkObject(a.ref), heap |-> a.heap]

\* what operation op makes of the result r of its get_or_resolve_class
Finish(op, r, h, class_name, mname, desc) ==
  CASE op = "get_or_resolve_class" -> [res |-> r, heap |-> h]
    [] op = "resolve_class_method" ->
         [res |-> AndThenFindMethod(r, class_name, mname, desc), heap |-> h]
    [] op = "new_object" -> NewObjectFinish(r, h)

\* operation op, up to its return or to the loop of its get_or_resolve_class
Resolve(op, name, mname, desc) ==
  LET r == ClassManagerResolve(class_manager, name)
      batch == InitBatch(r, name)
      kind == CASE r.k = "Err" -> "resolve_missing"
                [] r.k = "AlreadyLoaded" -> "resolve_known"
                [] r.k = "NewClass" -> "resolve_new"
      waiting == IF op = "get_or_resolve_class" THEN ctl
                 ELSE Append(ctl, Act(op, name, <<>>, 0, mname, desc, 0))
  IN /\ class_manager' = r.cm
     /\ UNCHANGED value_store
     /\ IF r.k = "Err" \/ batch = <<>>
        THEN LET f == Finish(op, IF r.k = "Err" THEN Err(ClassNotFoundException(name))
                                 ELSE OkClass(name), heap, name, mname, desc)
             IN /\ ctl' = ctl
                /\ ret' = f.res
                /\ heap' = f.heap
                /\ ev' = Plain(kind, op, name, f.res)
        ELSE /\ ctl' = Append(waiting, Act("resolve", name, batch, 1, "", "", 0))
             /\ ret' = NoRet
             /\ heap' = heap
             /\ ev' = Plain(kind, op, name, NoRet)
     /\ UNCHANGED <<statics, native_methods_registry, printed, call_stack,
                    init_begun, clinit_log>>

\* Vm::get_or_resolve_class, called by the embedder or by an executing frame
GetOrResolveClass(name) ==
  /\ CanCall
  /\ Resolve("get_or_resolve_class", name, "", "")

\* Vm::resolve_class_method
ResolveClassMethod(name, mname, desc) ==
  /\ CanCall
  /\ Resolve("resolve_class_method", name, mname, desc)

\* Vm::new_object
NewObject(name) ==
  /\ CanCall
  /\ HeapSize(heap) - Cardinality(init_begun) < MaxObjects
  /\ Resolve("new_object", name, "", "")

\* the get_or_resolve_class of a resolve_class_method or new_object has returned
\* from its loop
WrapperResume ==
  /\ UNCHANGED value_store
  /\ ctl # <<>>
  /\ Top(ctl).op \in {"resolve_class_method", "new_object"}
  /\ ret.k # "None"
  /\ LET rec == Top(ctl)
         f == Finish(rec.op, ret, heap, rec.cls, rec.mname, rec.desc)
     IN /\ ctl' = Pop(ctl)
        /\ ret' = f.res
        /\ heap' = f.heap
        /\ ev' = Plain("resume", rec.op, rec.cls, f.res)
  /\ UNCHANGED <<class_manager, statics, native_methods_registry, printed,
                 call_stack, init_begun, clinit_log>>

\* one turn of the loop over classes_to_init.to_initialize, or the final Ok(class)
InitLoop(fails, t) ==
  /\ UNCHANGED value_store
  /\ ctl # <<>>
  /\ Top(ctl).op = "resolve"
  /\ ret.k = "None"
  /\ LET rec == Top(ctl)
         next == Append(Pop(ctl), [rec EXCEPT !.idx = rec.idx + 1])
     IN IF rec.idx > Len(rec.batch)
        THEN /\ ctl' = Pop(ctl)
             /\ ret' = OkClass(rec.cls)
             /\ ev' = Plain("resolve_ret", "get_or_resolve_class", rec.cls,
                            OkClass(rec.cls))
             /\ UNCHANGED <<class_manager, heap, statics, native_methods_registry,
                            printed, call_stack, init_begun, clinit_log>>
        ELSE LET c == rec.batch[rec.idx]
                 id == ClassId(c)
                 a == Allocate(heap, id, c)
                 d == InvokeDispatch(native_methods_registry, printed, call_stack,
                                     c, FindMethod(c, "<clinit>", "()V"), NoObject,
                                     <<>>, fails, t)
             IN /\ heap' = a.heap
                /\ statics' = StaticsInsert(statics, id, a.ref)
                /\ init_begun' = init_begun \cup {c}
                /\ UNCHANGED <<class_manager, native_methods_registry>>
                /\ IF HasClinit(c)
                   THEN /\ clinit_log' = Append(clinit_log, c)
                        /\ call_stack' = d.cs
                        /\ printed' = d.printed
                        /\ ev' = Event(IF d.started THEN "frame_start" ELSE "invoke_ret",
                                       "invoke", TRUE, c, Clinit, NoObject, <<>>, Len(call_stack),
                                       d.res, d.calls, fails /\ ~Clinit.native, FALSE)
                        /\ IF d.started
                           THEN /\ ctl' = Append(ctl, Act("invoke", c, <<>>, 0,
                                                  "<clinit>", "()V", Len(call_stack)))
                                /\ ret' = NoRet
                           ELSE IF ClinitFailed(d.res)
                           THEN /\ ctl' = Pop(ctl)
                                /\ ret' = d.res
                           ELSE /\ ctl' = next
                                /\ ret' = NoRet
                   ELSE /\ ctl' = next
                        /\ ret' = NoRet
                        /\ ev' = Plain("init_step", "get_or_resolve_class", c, NoRet)
                        /\ UNCHANGED <<printed, call_stack, clinit_log>>

\* the invoke of a <clinit> has returned to the loop: `?`, then the next class
InitResume ==
  /\ UNCHANGED value_store
  /\ ctl # <<>>
  /\ Top(ctl).op = "resolve"
  /\ ret.k # "None"
  /\ LET rec == Top(ctl)
     IN IF ClinitFailed(ret)
        THEN /\ ctl' = Pop(ctl)
             /\ ret' = ret
             /\ ev' = Plain("resolve_fail", "get_or_resolve_class", rec.cls, ret)
        ELSE /\ ctl' = Append(Pop(ctl), [rec EXCEPT !.idx = rec.idx + 1])
             /\ ret' = NoRet
             /\ ev' = Plain("clinit_ok", "get_or_resolve_class", rec.cls, ret)
  /\ UNCHANGED <<class_manager, heap, statics, native_methods_registry, printed,
                 call_stack, init_begun, clinit_log>>

\* Vm::invoke of a resolved class and method, up to its return or to the start
\* of the frame's execute
Invoke(cls, m, object, args, fails, t) ==
  /\ UNCHANGED value_store
  /\ CanInvoke
  /\ cls \in CmLoaded(class_manager)
  /\ m \in Invocable(cls)
  /\ ~m.native => (CanCall /\ object = NoObject /\ args = BytecodeArgs)
  /\ (GetMethod(native_methods_registry, cls, m) = "temp_print" /\ args # <<>>)
       => Len(printed) < MaxPrinted
  /\ LET d == InvokeDispatch(native_methods_registry, printed, call_stack,
                             cls, m, object, args, fails, t)
     IN /\ call_stack' = d.cs
        /\ printed' = d.printed
        /\ ev' = Event(IF d.started THEN "frame_start" ELSE "invoke_ret",
                       "invoke", FALSE, cls, m, object, args, Len(call_stack),
                       d.res, d.calls, ~m.native /\ fails, FALSE)
        /\ ret' = d.res
        /\ ctl' = IF d.started
                  THEN Append(ctl, Act("invoke", cls, <<>>, 0, m.name, m.desc,
                                       Len(call_stack)))
                  ELSE ctl
  /\ UNCHANGED <<class_manager, heap, statics, native_methods_registry,
                 init_begun, clinit_log>>

\* the frame's execute returns result r: invoke pops the frame and returns
ExecuteReturn(r) ==
  /\ UNCHANGED value_store
  /\ Executing
  /\ LET rec == Top(ctl)
         f == InvokeFinish(call_stack, r)
     IN /\ call_stack' = f.cs
        /\ ret' = f.res
        /\ ctl' = Pop(ctl)
        /\ ev' = Event("invoke_ret", "invoke", rec.mname = "<clinit>", rec.cls,
                       FindMethod(rec.cls, rec.mname, rec.desc),
                       NoObject, <<>>, rec.depth0, f.res, <<>>, FALSE, TRUE)
  /\ UNCHANGED <<class_manager, heap, statics, native_methods_registry, printed,
                 init_begun, clinit_log>>

\* the positions of the fields a class declares itself
OwnFieldIndexes(name) ==
  (Len(AllFields(name)) - Len(ClassFile(name).fields) + 1)..Len(AllFields(name))

\* an executing frame stores value v into a field the class with this id declares,
\* through the class's static instance
PutStatic(id, i, v) ==
  /\ UNCHANGED value_store
  /\ Executing
  /\ GetStaticInstance(statics, id) # NoObject
  /\ i \in OwnFieldIndexes(ClassOfId(id))
  /\ LET ref == GetStaticInstance(statics, id)
     IN heap' = [heap EXCEPT ![ref.c][ref.n] = SetField(@, i, v)]
  /\ ev' = Plain("put_static", "execute", ClassOfId(id), NoRet)
  /\ UNCHANGED <<class_manager, statics, native_methods_registry, printed,
                 call_stack, ctl, ret, init_begun, clinit_log>>

\* the embedder, or the executing frame, takes the result of the operation it called
TakeResult ==
  /\ UNCHANGED value_store
  /\ IF ctl = <<>> THEN TRUE ELSE Top(ctl).op = "invoke"
  /\ ret.k # "None"
  /\ ret' = NoRet
  /\ ev' = Plain("take", "", "", NoRet)
  /\ UNCHANGED <<class_manager, heap, statics, native_methods_registry, printed,
                 call_stack, ctl, init_begun, clinit_log>>

Next ==
  \/ \E name \in RequestNames : GetOrResolveClass(name)
  \/ \E fails \in BOOLEAN : InitLoop(fails, 0)
  \/ InitResume
  \/ \E name \in RequestNames, mr \in MethodRequests :
       ResolveClassMethod(name, mr[1], mr[2])
  \/ WrapperResume
  \/ \E name \in RequestNames : NewObject(name)
  \/ \E cls \in ClassNames :
       \E m \in Invocable(cls) :
        \E object \in Receivers(cls), args \in ArgChoices(m) :
         \E fails \in (IF m.native THEN {FALSE} ELSE BOOLEAN) :
           \E t \in ClockFor(GetMethod(native_methods_registry, cls, m)) :
             Invoke(cls, m, object, args, fails, t)
  \/ \E r \in ExecResults : ExecuteReturn(r)
  \/ \E id \in DOMAIN statics, i \in 1..2 : PutStatic(id, i, IntV(1))
  \/ TakeResult

Spec == Init /\ [][Next]_vars

(***************************************************************************)
(* A program that only resolves the classes with built-in natives and      *)
(* invokes their native methods; no bytecode runs.                         *)
(***************************************************************************)
BootNext ==
  \/ \E name \in BootNames : GetOrResolveClass(name)
  \/ InitLoop(FALSE, 0)
  \/ \E name \in BootNames, mr \in BootMethodRequests :
       ResolveClassMethod(name, mr[1], mr[2])
  \/ WrapperResume
  \/ \E name \in BootNames : NewObject(name)
  \/ \E cls \in BootNames \cap ClassNames :
       \E m \in Invocable(cls) :
        \E object \in Receivers(cls), args \in BootArgChoices(m) :
         \E t \in ClockFor(GetMethod(native_methods_registry, cls, m)) :
           Invoke(cls, m, object, args, FALSE, t)
  \/ TakeResult

BootSpec == Init /\ [][BootNext]_vars

(***************************************************************************)
(* The value layer (value.rs) on its own: a program that creates objects   *)
(* and arrays, clones the values it holds and writes through them.         *)
(***************************************************************************)
\* #[derive(Clone)] on Value: the clone of an Array value shares the storage
\* (Rc::clone), the clone of an Object value is the same reference
CloneValueCopiesArray(arrs, v) ==
  IF v.tag = "Array"
  THEN [arrays |-> Append(arrs, arrs[v.v.ref]),
        value |-> ArrayV(v.v.elem, Len(arrs) + 1)]
  ELSE [arrays |-> arrs, value |-> v]

CloneValue(arrs, v) == [arrays |-> arrs, value |-> v]

\* a held value and the creation it stems from
Held(v, made) == [val |-> v, made |-> made]

\* the number of creations so far
Creations == Len(arrays) + HeapSize(heap)

\* the classes the value-layer program instantiates
ValueClassNames == {"Prims", "Rec", "Quad"}

\* the element types of the arrays it creates
ElementTypes == {BaseField("Int"), BaseField("Long")}

\* the values it writes
StoreValues == {LongV(1), Null}

\* what a step of the value layer did
ValueEvent(kind, holder, cls, index, value, before, expected, resolver, res) ==
  [kind |-> kind, holder |-> holder, cls |-> cls, index |-> index,
   value |-> value, before |-> before, expected |-> expected,
   resolver |-> resolver, res |-> res]

vm_vars == <<class_manager, statics, native_methods_registry, printed,
             call_stack, ctl, ret, init_begun, clinit_log>>

\* Vm::new_object_of_class on a resolved class; the program keeps the reference
NewObjectOfClass(name) ==
  /\ Len(held) < MaxHeld
  /\ LET a == Allocate(heap, ClassId(name), name)
     IN /\ heap' = a.heap
        /\ held' = Append(held, Held(ObjectV(a.ref), Creations + 1))
        /\ ev' = ValueEvent("object_new", Len(held) + 1, name, 0, ObjectV(a.ref),
                            <<>>, "", "", FALSE)
  /\ UNCHANGED <<arrays, vm_vars>>

\* a new array of n zero elements; the program keeps the Value::Array
NewArray(elem, n) ==
  /\ Len(held) < MaxHeld
  /\ arrays' = Append(arrays, [j \in 1..n |-> ZeroValue(elem)])
  /\ held' = Append(held, Held(ArrayV(elem, Len(arrays) + 1), Creations + 1))
  /\ ev' = ValueEvent("array_new", Len(held) + 1, "", 0, ArrayV(elem, Len(arrays) + 1),
                      <<>>, "", "", FALSE)
  /\ UNCHANGED <<heap, vm_vars>>

\* value.clone() of a held value
Clone(h) ==
  /\ Len(held) < MaxHeld
  /\ h \in DOMAIN held
  /\ LET c == CloneValue(arrays, held[h].val)
     IN /\ arrays' = c.arrays
        /\ held' = Append(held, Held(c.value, held[h].made))
        /\ ev' = ValueEvent("clone", h, "", 0, c.value, <<>>, "", "", FALSE)
  /\ UNCHANGED <<heap, vm_vars>>

\* object.set_field(index, value) through a held reference
SetFieldStep(h, index, value) ==
  /\ h \in DOMAIN held
  /\ held[h].val.tag = "Object"
  /\ LET ref == held[h].val.v
         obj == Deref(heap, ref)
     IN /\ index \in DOMAIN obj.fields
        /\ heap' = [heap EXCEPT ![ref.c][ref.n] = SetField(@, index, value)]
        /\ ev' = ValueEvent("set_field", h, ClassOfId(obj.class_id), index, value,
                            obj.fields, "", "", FALSE)
  /\ UNCHANGED <<arrays, held, vm_vars>>

\* array.borrow_mut()[index] = value through a held Value::Array
ArrayStore(h, index, value) ==
  /\ h \in DOMAIN held
  /\ held[h].val.tag = "Array"
  /\ LET aref == held[h].val.v.ref
     IN /\ index \in DOMAIN arrays[aref]
        /\ arrays' = [arrays EXCEPT ![aref][index] = value]
        /\ ev' = ValueEvent("array_store", h, "", index, value, arrays[aref],
                            "", "", FALSE)
  /\ UNCHANGED <<heap, held, vm_vars>>

ValueNext ==
  \/ \E name \in ValueClassNames : NewObjectOfClass(name)
  \/ \E elem \in ElementTypes, n \in 1..MaxArrayLen : NewArray(elem, n)
  \/ \E h \in 1..MaxHeld : Clone(h)
  \/ \E h \in 1..MaxHeld, index \in 1..MaxIndex, value \in StoreValues :
       SetFieldStep(h, index, value)
  \/ \E h \in 1..MaxHeld, index \in 1..MaxIndex, value \in StoreValues :
       ArrayStore(h, index, value)

ValueSpec == Init /\ [][ValueNext]_vars

(***************************************************************************)
(* Value::matches_type (value.rs), applied by a program that creates       *)
(* objects and arrays and asks whether values match expected types.        *)
(***************************************************************************)
\* the resolver a caller passes: a class id to the class's name, "" for None
KnownClasses == [id \in ClassIds |-> ClassOfId(id)]
NoClasses == [id \in ClassIds |-> ""]
Resolvers == {KnownClasses, NoClasses}

BaseTypes == {"Byte", "Char", "Double", "Float", "Int", "Long", "Short", "Boolean"}

\* the expected types asked about
ExpectedTypes ==
  {BaseField(b) : b \in BaseTypes} \cup
  {ObjectField("Quad"), ObjectField("Foo"),
   ArrayField(BaseField("Int")), ArrayField(BaseField("Long"))}

\* the values asked about that need no creation
PlainValues == {Uninitialized, IntV(1), LongV(1), FloatV(1), DoubleV(1), Null}

\* Value::matches_type; h is the storage the object reference points into
MatchesTypeWidening(v, expected_type, class_resolver, h) ==
  CASE v.tag = "Uninitialized" -> FALSE
    [] v.tag = "Int" ->
         IF expected_type.k = "Base" THEN expected_type.t \in {"Int", "Long"} ELSE FALSE
    [] v.tag = "Long" ->
         IF expected_type.k = "Base" THEN expected_type.t = "Long" ELSE FALSE
    [] v.tag = "Float" ->
         IF expected_type.k = "Base" THEN expected_type.t = "Float" ELSE FALSE
    [] v.tag = "Double" ->
         IF expected_type.k = "Base" THEN expected_type.t = "Double" ELSE FALSE
    [] v.tag = "Object" ->
         IF expected_type.k = "Object"
         THEN LET value_class == class_resolver[Deref(h, v.v).class_id]
              IN IF value_class # "" THEN value_class = expected_type.t ELSE FALSE
         ELSE FALSE
    [] v.tag = "Null" -> FALSE
    [] v.tag = "Array" ->
         IF expected_type.k = "Array" THEN v.v.elem = expected_type.t ELSE FALSE

MatchesType(v, expected_type, class_resolver, h) ==
  CASE v.tag = "Uninitialized" -> FALSE
    [] v.tag = "Int" ->
         IF expected_type.k = "Base" THEN expected_type.t = "Int" ELSE FALSE
    [] v.tag = "Long" ->
         IF expected_type.k = "Base" THEN expected_type.t = "Long" ELSE FALSE
    [] v.tag = "Float" ->
         IF expected_type.k = "Base" THEN expected_type.t = "Float" ELSE FALSE
    [] v.tag = "Double" ->
         IF expected_type.k = "Base" THEN expected_type.t = "Double" ELSE FALSE
    [] v.tag = "Object" ->
         IF expected_type.k = "Object"
         THEN LET value_class == class_resolver[Deref(h, v.v).class_id]
              IN IF value_class # "" THEN value_class = expected_type.t ELSE FALSE
         ELSE FALSE
    [] v.tag = "Null" -> FALSE
    [] v.tag = "Array" ->
         IF expected_type.k = "Array" THEN v.v.elem = expected_type.t ELSE FALSE

\* value.matches_type(expected_type, class_resolver)
MatchesTypeStep(v, expected_type, class_resolver) ==
  /\ ev' = ValueEvent("matches_type", 0, "", 0, v, <<>>, expected_type,
                      class_resolver, MatchesType(v, expected_type, class_resolver, heap))
  /\ UNCHANGED <<heap, arrays, held, vm_vars>>

TypeNext ==
  \/ \E name \in ValueClassNames : NewObjectOfClass(name)
  \/ \E elem \in ElementTypes, n \in 1..MaxArrayLen : NewArray(elem, n)
  \/ \E v \in PlainValues, e \in ExpectedTypes, r \in Resolvers :
       MatchesTypeStep(v, e, r)
  \/ \E h \in DOMAIN held, e \in ExpectedTypes, r \in Resolvers :
       MatchesTypeStep(held[h].val, e, r)

TypeSpec == Init /\ [][TypeNext]_vars

(***************************************************************************)
(* Properties.                                                             *)
(***************************************************************************)
\* how often class c occurs in the log q
Count(c, q) == Cardinality({i \in DOMAIN q : q[i] = c})

\* the last step was the initialization loop invoking a <clinit>
ClinitInvoked == ev.init /\ ~ev.executed

\* the last step started the execute of a <clinit> the initialization loop invoked
ClinitStarted == ev.init /\ ev.kind = "frame_start"

\* C1: when an invoke returns (native or bytecode, Ok or Err, nested or not, of a
\* <clinit> or not) the call stack is as deep as it was when invoke was called
InvokeKeepsDepth ==
  ev.kind = "invoke_ret" => Len(call_stack) = ev.depth0

\* a bytecode invoke nested in a frame's execute has returned a failure
C1Witness ==
  /\ ev.kind = "invoke_ret"
  /\ ev.executed
  /\ ev.res.k = "Err"
  /\ ev.depth0 >= 1

\* C2: when the loop invokes the <clinit> of class C, every ancestor of C has its
\* static instance registered and, if it has a <clinit>, has had it invoked, and
\* the classes before C in the batch are registered
AncestorsInitializedFirst ==
  ClinitInvoked =>
    /\ \A a \in Ancestors(ev.cls) :
         /\ ClassId(a) \in DOMAIN statics
         /\ HasClinit(a) => Count(a, clinit_log) >= 1
    /\ ev.kind = "frame_start" =>
         LET rec == ctl[Len(ctl) - 1]
         IN \A j \in 1..rec.idx : ClassId(rec.batch[j]) \in DOMAIN statics

ZeroOf(ft) ==
  IF ft.k \in {"Object", "Array"} THEN Null
  ELSE IF ft.t = "Long" THEN LongV(0)
  ELSE IF ft.t = "Float" THEN FloatV(0)
  ELSE IF ft.t = "Double" THEN DoubleV(0)
  ELSE IntV(0)

\* C4: when the execute of C's <clinit> starts, the static table has an entry for
\* C, and that object is of class C with every field at the zero value of its type
StaticsReadyAtClinit ==
  ClinitStarted =>
    /\ ClassId(ev.cls) \in DOMAIN statics
    /\ LET o == Deref(heap, statics[ClassId(ev.cls)])
       IN /\ o.class_id = ClassId(ev.cls)
          /\ DOMAIN o.fields = DOMAIN AllFields(ev.cls)
          /\ \A i \in DOMAIN o.fields : o.fields[i] = ZeroOf(AllFields(ev.cls)[i])

\* Leaf's <clinit> starts after a frame has written the static field of Base
C4Witness ==
  /\ ClinitStarted
  /\ ev.cls = "Leaf"
  /\ ClassId("Base") \in DOMAIN statics
  /\ GetField(Deref(heap, statics[ClassId("Base")]), 1) = IntV(1)

\* C5: the keys of the static table are the ids of the classes the class manager
\* has loaded and whose turn in an initialization loop has come
StaticsIffInitBegun ==
  DOMAIN statics = {ClassId(c) : c \in class_manager \cap init_begun}

\* after a failed <clinit> of Base, Mid is loaded and has no entry, Base has one
C5Witness ==
  /\ ev.kind = "resolve_fail"
  /\ "Mid" \in class_manager
  /\ ClassId("Mid") \notin DOMAIN statics
  /\ ClassId("Base") \in DOMAIN statics

\* C6: once get_or_resolve_class has returned to the embedder, with Ok or Err,
\* every loaded class has a static-table entry and has had its <clinit> run
NoHalfInitializedClass ==
  (ctl = <<>> /\ ev.op = "get_or_resolve_class" /\ ret.k # "None") =>
    \A c \in class_manager :
      /\ ClassId(c) \in DOMAIN statics
      /\ HasClinit(c) => Count(c, clinit_log) >= 1

\* the classes after position idx of a batch: none has been begun, registered or
\* had its <clinit> invoked
LaterUntouched(batch, idx, begun, st, log) ==
  \A j \in (idx + 1)..Len(batch) :
    /\ batch[j] \notin begun
    /\ ClassId(batch[j]) \notin DOMAIN st
    /\ Count(batch[j], log) = 0

\* C7: when the invoke of a <clinit> hands a failure to the loop, the next step
\* is get_or_resolve_class returning that failure, with nothing allocated,
\* registered or invoked, and the later classes of the batch untouched; the same
\* when the invoke fails before its frame exists
ClinitFailureAbandonsBatch ==
  [][ /\ (ctl # <<>> /\ Top(ctl).op = "resolve" /\ ret.k = "Err") =>
           /\ ctl' = Pop(ctl)
           /\ ret' = ret
           /\ heap' = heap
           /\ statics' = statics
           /\ call_stack' = call_stack
           /\ clinit_log' = clinit_log
           /\ LaterUntouched(Top(ctl).batch, Top(ctl).idx, init_begun', statics',
                             clinit_log')
      /\ (ev'.init /\ ev'.kind = "invoke_ret" /\ ~ev'.executed /\ ev'.res.k = "Err") =>
           /\ ctl' = Pop(ctl)
           /\ ret' = ev'.res
           /\ LaterUntouched(Top(ctl).batch, Top(ctl).idx, init_begun', statics',
                             clinit_log') ]_vars

\* get_or_resolve_class has returned the failure of Base's <clinit> and Mid and
\* Leaf, later in the batch, are loaded and untouched
C7Witness ==
  /\ ev.kind = "resolve_fail"
  /\ ret.k = "Err"
  /\ {"Mid", "Leaf"} \subseteq class_manager
  /\ init_begun = {"Base"}

\* C8: invoking a native method with no callback for its triple returns
\* NotImplemented, calls no callback, runs no frame and changes nothing else
MissingNativeIsNotImplemented ==
  [][ (/\ ev'.kind = "invoke_ret"
       /\ ev'.method.native
       /\ GetMethod(native_methods_registry, ev'.cls, ev'.method) = "") =>
        /\ ret' = Err(NotImplemented)
        /\ ev'.calls = <<>>
        /\ ~ev'.executed
        /\ call_stack' = call_stack
        /\ statics' = statics
        /\ ctl' = ctl
        /\ heap' = heap
        /\ printed' = printed ]_vars

\* Foo.baz, which has no callback, was invoked from an executing frame
C8Witness ==
  /\ ev.kind = "invoke_ret"
  /\ ev.method.name = "baz"
  /\ ev.res = Err(NotImplemented)
  /\ ev.depth0 >= 1

\* C9: invoking a native method with a callback calls the callback once, with the
\* receiver and arguments given, returns what the callback returns and pushes no
\* frame; the callback of (Foo, bar, ()I) makes it Some(Int(42))
NativeReturnsCallbackResult ==
  LET cb == GetMethod(native_methods_registry, ev.cls, ev.method)
  IN (ev.kind = "invoke_ret" /\ ev.method.native /\ cb # "") =>
       /\ ev.calls = <<[cb |-> cb, object |-> ev.object, args |-> ev.args]>>
       /\ \E t \in ClockFor(cb) :
            ev.res = RunCallback(cb, <<>>, ev.object, ev.args, t).res
       /\ ret = ev.res
       /\ ~ev.executed
       /\ Len(call_stack) = ev.depth0
       /\ cb = "int_42" => ret = OkSome(IntV(42))

\* Foo.bar invoked with no receiver and no arguments returned Some(Int(42)), and
\* tempPrint was handed its argument
C9Witness ==
  /\ ev.kind = "invoke_ret"
  /\ ev.cls = "Foo"
  /\ ev.method.name = "bar"
  /\ ev.object = NoObject
  /\ ev.args = <<>>
  /\ ret = OkSome(IntV(42))
  /\ printed = <<IntV(1)>>

\* C10: when add_frame fails, invoke returns that failure, the frame's execute
\* does not run and the call stack is as deep as before
AddFrameFailureIsReturned ==
  ev.addfail =>
    /\ ev.kind = "invoke_ret"
    /\ ~ev.executed
    /\ ev.res = Err(ValidationException)
    /\ ret = ev.res
    /\ Len(call_stack) = ev.depth0

\* the add_frame of an invoke of Leaf.run from an executing frame failed
C10Witness ==
  /\ ev.addfail
  /\ ~ev.init
  /\ ev.method.name = "run"
  /\ ev.depth0 >= 1

\* C11: no step removes a key of the static table or changes the reference a
\* key maps to
StaticsOnlyGrow ==
  [][\A id \in DOMAIN statics :
       id \in DOMAIN statics' /\ statics'[id] = statics[id]]_vars

\* the table has grown to three entries over two resolutions: Foo gets its entry
\* while Base and Mid keep theirs
C11Witness ==
  /\ ev.kind = "init_step"
  /\ ev.cls = "Foo"
  /\ DOMAIN statics = {ClassId("Base"), ClassId("Mid"), ClassId("Foo")}

\* C12: resolve_class_method on a class that resolves but has no such method
\* fails with something other than class-not-found, and on a class that cannot
\* be resolved with class-not-found
MethodNotFoundIsDistinct ==
  (ev.op = "resolve_class_method" /\ ev.res.k = "Err") =>
    /\ ev.cls \notin ClassNames => ev.res.err = ClassNotFoundException(ev.cls)
    /\ ev.cls \in class_manager => ev.res.err.tag # "ClassNotFoundException"

\* C13: every VmError converts to InternalError of itself, every value-stack
\* failure to InternalError(ValidationException), and a failure returned by
\* invoke is a MethodCallFailed
InvokeFailsThroughMethodCallFailed ==
  /\ \A e \in VmErrors : FromVmError(e) = InternalError(e)
  /\ \A x \in ValueStackErrors :
       /\ FromValueStackError(x) = InternalError(ValidationException)
       /\ FromValueStackError(x).channel # "ExceptionThrown"
  /\ (ev.kind = "invoke_ret" /\ ev.res.k = "Err") => IsMethodCallFailed(ev.res.err)

\* C20: an operation asked for a class the class manager cannot resolve returns
\* class-not-found in that step, with the static table, the call stack, the
\* objects and the <clinit> log unchanged; a new_object that returns Ok returns
\* a reference to one new object of the class and leaves the static table alone
UnresolvedClassChangesNothing ==
  [][ /\ ev'.kind = "resolve_missing" =>
           /\ ev'.op \in {"get_or_resolve_class", "resolve_class_method", "new_object"}
           /\ ret' = Err(ClassNotFoundException(ev'.cls))
           /\ statics' = statics
           /\ call_stack' = call_stack
           /\ heap' = heap
           /\ clinit_log' = clinit_log
           /\ ctl' = ctl
      /\ (ev'.op = "new_object" /\ ev'.res.k = "Ok") =>
           /\ statics' = statics
           /\ HeapSize(heap') = HeapSize(heap) + 1
           /\ ret'.obj # NoObject
           /\ Deref(heap', ret'.obj) = ObjectValueNew(ClassId(ev'.cls), ev'.cls)
           /\ \A id \in DOMAIN statics : statics[id] # ret'.obj ]_vars

\* new_object("Missing") called from an executing frame returned the failure
C20Witness ==
  /\ ev.kind = "resolve_missing"
  /\ ev.op = "new_object"
  /\ ev.cls = "Missing"
  /\ call_stack # <<>>
  /\ ret = Err(ClassNotFoundException("Missing"))

\* the callback a step's invoke found in the registry, "" if none
CallbackOf(e) ==
  IF e.kind = "invoke_ret" /\ e.method.native
  THEN GetMethod(native_methods_registry, e.cls, e.method)
  ELSE ""

\* the parts of the Vm other than the result just returned
VmState == <<class_manager, heap, statics, native_methods_registry, printed, call_stack>>

\* C17: the registry holds the five built-in callbacks and no step changes it;
\* a registerNatives hook returns Ok(None) and changes nothing, a clock hook
\* returns Some(Long(_)) and changes nothing
BuiltInNativesAreFixed ==
  [][ /\ RegisterNatives \subseteq native_methods_registry
      /\ Cardinality(RegisterNatives) = 5
      /\ native_methods_registry' = native_methods_registry
      /\ (ev'.kind = "invoke_ret" /\ ev'.method.name = "registerNatives") =>
           /\ CallbackOf(ev') = "noop"
           /\ ret' = OkNone
           /\ VmState' = VmState
      /\ (ev'.kind = "invoke_ret"
          /\ ev'.cls = "java/lang/System"
          /\ ev'.method.name \in {"nanoTime", "currentTimeMillis"}) =>
           /\ CallbackOf(ev') \in {"nano_time", "current_time_millis"}
           /\ ret'.k = "Ok"
           /\ ret'.some
           /\ ret'.val.tag = "Long"
           /\ VmState' = VmState ]_vars

\* both registerNatives hooks and both clock hooks have been invoked: the last
\* one was java/lang/Object's registerNatives, after a print
C17Witness ==
  /\ ev.kind = "invoke_ret"
  /\ ev.cls = "java/lang/Object"
  /\ ev.method.name = "registerNatives"
  /\ ret = OkNone
  /\ printed # <<>>
  /\ "java/lang/System" \in class_manager

\* C18: the print hook called with arguments appends the first of them to the
\* printed buffer and returns Ok(None); called with none it returns
\* ValidationException and leaves the buffer alone; no other step changes the
\* buffer
PrintAppendsFirstArgument ==
  [][ IF ev'.kind = "invoke_ret" /\ CallbackOf(ev') = "temp_print"
      THEN IF ev'.args # <<>>
           THEN /\ printed' = Append(printed, ev'.args[1])
                /\ ret' = OkNone
           ELSE /\ printed' = printed
                /\ ret' = Err(ValidationException)
      ELSE printed' = printed ]_vars

\* after print(2, 1) and print(1), a print with no arguments failed and the
\* buffer still holds 2, 1
C18Witness ==
  /\ ev.kind = "invoke_ret"
  /\ ev.method.name = "tempPrint"
  /\ ev.args = <<>>
  /\ ret = Err(ValidationException)
  /\ printed = <<IntV(2), IntV(1)>>

\* the holders of the value held at h: the positions of held whose value stems
\* from the same creation
SameCreation(h) == {g \in DOMAIN held : held[g].made = held[h].made}

\* C14: the object ObjectValue::new makes for a class has one field per field of
\* the class, inherited ones included, each the zero value of its declared type,
\* in layout order
NewObjectIsZeroed ==
  ev.kind = "object_new" =>
    LET o == Deref(heap, ev.value.v)
        layout == AllFields(ev.cls)
    IN /\ o.class_id = ClassId(ev.cls)
       /\ Len(o.fields) = Len(layout)
       /\ Len(layout) >= Len(ClassFile(ev.cls).fields)
       /\ \A i \in 1..Len(layout) : o.fields[i] = ZeroOf(layout[i])

\* an object of Rec, which declares an object and an array field and inherits
\* the eight primitive fields of Prims, has been made
C14Witness ==
  /\ ev.kind = "object_new"
  /\ ev.cls = "Rec"
  /\ Len(Deref(heap, ev.value.v).fields) = 10
  /\ Deref(heap, ev.value.v).fields[6] = LongV(0)
  /\ Deref(heap, ev.value.v).fields[10] = Null

\* C16: after a write to position i through one Value::Array, every held value
\* that stems from the same array creation reads the written value at i
ArrayWritesAreShared ==
  ev.kind = "array_store" =>
    \A g \in SameCreation(ev.holder) :
      /\ held[g].val.tag = "Array"
      /\ arrays[held[g].val.v.ref][ev.index] = ev.value

\* position 2 was written through a clone, and the value first created, which
\* is another held value, reads it
C16Witness ==
  /\ ev.kind = "array_store"
  /\ ev.holder = 2
  /\ ev.index = 2
  /\ ev.value = LongV(1)
  /\ SameCreation(2) = {1, 2}
  /\ arrays[held[1].val.v.ref][2] = LongV(1)

\* C19: after set_field(i, v), get_field(i) through any reference to the object
\* gives v, every other field is what it was, the number of fields is the same,
\* whatever the declared type of field i
SetThenGetField ==
  ev.kind = "set_field" =>
    \A g \in SameCreation(ev.holder) :
      LET o == Deref(heap, held[g].val.v)
      IN /\ GetField(o, ev.index) = ev.value
         /\ Len(o.fields) = Len(ev.before)
         /\ \A j \in DOMAIN ev.before : j # ev.index => GetField(o, j) = ev.before[j]

\* a Long was stored in the int field of a Quad whose double field holds Null,
\* through the second of two references to it
C19Witness ==
  /\ ev.kind = "set_field"
  /\ ev.cls = "Quad"
  /\ ev.holder = 2
  /\ SameCreation(2) = {1, 2}
  /\ ev.index = 1
  /\ ev.value = LongV(1)
  /\ AllFields("Quad")[1] = BaseField("Int")
  /\ ev.before[2] = Null
  /\ GetField(Deref(heap, held[1].val.v), 1) = LongV(1)

\* C15: matches_type is true exactly when the value is an Int, Long, Float or
\* Double and the expected type is that primitive type, or the value is an
\* object whose class id the resolver maps to a class named as expected, or the
\* value is an array whose element type is the expected element type
TypeMatchIsExact ==
  ev.kind = "matches_type" =>
    (ev.res <=>
       \/ /\ ev.value.tag \in {"Int", "Long", "Float", "Double"}
          /\ ev.expected = BaseField(ev.value.tag)
       \/ /\ ev.value.tag = "Object"
          /\ ev.expected.k = "Object"
          /\ ev.resolver[Deref(heap, ev.value.v).class_id] # ""
          /\ ev.resolver[Deref(heap, ev.value.v).class_id] = ev.expected.t
       \/ /\ ev.value.tag = "Array"
          /\ ev.expected.k = "Array"
          /\ ev.value.v.elem = ev.expected.t)

\* an object of Quad was matched against the expected class Quad by a resolver
\* that cannot map its class id, and did not match
C15Witness ==
  /\ ev.kind = "matches_type"
  /\ ev.value.tag = "Object"
  /\ ev.expected = ObjectField("Quad")
  /\ Deref(heap, ev.value.v).class_id = ClassId("Quad")
  /\ ev.resolver = NoClasses
  /\ ~ev.res

====
